---- MODULE Spec2Model ----
(***************************************************************************)
(* Model of lasy's profile algebra (lasy/profiles/profile.py) and of the   *)
(* grid energy / normalisation utilities (lasy/utils/laser_utils.py).      *)
(*                                                                         *)
(* Numbers.  A python/numpy float is modelled as an extended rational      *)
(*   [k, n, d]:  k = "fin" (value n/d, d > 0, reduced), k = "inf" (sign in *)
(*   n), k = "nan", or k = "none" for python's None.                       *)
(* A field cell (complex128) and a polarisation component are modelled as  *)
(*   a "root number" [k, s, n, d]: the value s * sqrt(n/d), s in {1,-1}    *)
(*   standing for the phase factor, n/d the squared magnitude.  Scaling by *)
(*   a real factor sqrt(q) is then exact.  Non-finite cells keep only      *)
(*   their class ("inf": infinite magnitude, "nan").                       *)
(* numpy arithmetic never raises on division by zero: it yields inf or nan *)
(* (with a RuntimeWarning under the default error state).                  *)
(***************************************************************************)
EXTENDS Integers, Sequences, FiniteSets, TLC

VARIABLES dim, box, shape, heap, grid_field, nalloc, calls, last, pool, plast

vars == <<dim, box, shape, heap, grid_field, nalloc, calls, last, pool, plast>>
gridvars == <<dim, box, shape, heap, grid_field, nalloc, calls, last>>
profvars == <<pool, plast>>

\* ----------------------------------------------------------------- bounds
MaxCalls == 2
MaxN == 2
MaxObjs == 2

\* ------------------------------------------------- extended rational numbers
Abs(x) == IF x < 0 THEN -x ELSE x

Sign(x) == IF x < 0 THEN -1 ELSE IF x = 0 THEN 0 ELSE 1

RECURSIVE GCD(_, _)
GCD(a, b) == IF b = 0 THEN a ELSE GCD(b, a % b)

Fin(n, d) ==
    LET g == GCD(Abs(n), Abs(d))
        sg == IF d < 0 THEN -1 ELSE 1
    IN  [k |-> "fin", n |-> sg * (n \div g), d |-> Abs(d) \div g]

NaN == [k |-> "nan", n |-> 0, d |-> 1]
Inf(s) == [k |-> "inf", n |-> s, d |-> 1]
None == [k |-> "none", n |-> 0, d |-> 1]
Num(i) == Fin(i, 1)

ExtMul(x, y) ==
    IF x.k = "nan" \/ y.k = "nan" THEN NaN
    ELSE IF x.k = "inf" \/ y.k = "inf"
         THEN IF x.n = 0 \/ y.n = 0 THEN NaN ELSE Inf(Sign(x.n) * Sign(y.n))
         ELSE Fin(x.n * y.n, x.d * y.d)

\* a / b as numpy computes it: no exception, x/0 = +-inf, 0/0 = nan
ExtDiv(x, y) ==
    IF x.k = "nan" \/ y.k = "nan" THEN NaN
    ELSE IF y.k = "inf" THEN (IF x.k = "inf" THEN NaN ELSE Num(0))
    ELSE IF x.k = "inf" THEN Inf(IF y.n < 0 THEN -x.n ELSE x.n)
    ELSE IF y.n = 0 THEN (IF x.n = 0 THEN NaN ELSE Inf(Sign(x.n)))
    ELSE Fin(x.n * y.d, x.d * y.n)

ExtAdd(x, y) ==
    IF x.k = "nan" \/ y.k = "nan" THEN NaN
    ELSE IF x.k = "inf" /\ y.k = "inf" THEN (IF x.n = y.n THEN x ELSE NaN)
    ELSE IF x.k = "inf" THEN x
    ELSE IF y.k = "inf" THEN y
    ELSE Fin(x.n * y.d + y.n * x.d, x.d * y.d)

ExtSub(x, y) == ExtAdd(x, ExtMul(Num(-1), y))

\* x < y for finite x, y
FinLess(x, y) == x.n * y.d < y.n * x.d

\* max of two values the way np.max reduces: nan propagates
ExtMax(x, y) ==
    IF x.k = "nan" \/ y.k = "nan" THEN NaN
    ELSE IF x.k = "inf" THEN (IF x.n > 0 THEN x ELSE y)
    ELSE IF y.k = "inf" THEN (IF y.n > 0 THEN y ELSE x)
    ELSE IF FinLess(x, y) THEN y ELSE x

\* ------------------------------------------------------------ root numbers
Root(s, n, d) ==
    LET q == Fin(n, d)
    IN  [k |-> "fin", s |-> IF q.n = 0 THEN 1 ELSE s, n |-> q.n, d |-> q.d]

RNaN == [k |-> "nan", s |-> 1, n |-> 0, d |-> 1]
RInf(s) == [k |-> "inf", s |-> s, n |-> 1, d |-> 1]

\* the real number x as a root number
RootOf(x) ==
    IF x.k = "nan" THEN RNaN
    ELSE IF x.k = "inf" THEN RInf(Sign(x.n))
    ELSE Root(IF x.n < 0 THEN -1 ELSE 1, x.n * x.n, x.d * x.d)

\* np.sqrt(x): nan for every negative x, -inf included
Sqrt(x) ==
    IF x.k = "nan" THEN RNaN
    ELSE IF x.k = "inf" THEN (IF x.n > 0 THEN RInf(1) ELSE RNaN)
    ELSE IF x.n < 0 THEN RNaN
    ELSE Root(1, x.n, x.d)

\* x ** 0.5 on a numpy float64 (C pow): nan for negative finite x, +inf for +-inf
Pow05(x) ==
    IF x.k = "nan" THEN RNaN
    ELSE IF x.k = "inf" THEN RInf(1)
    ELSE IF x.n < 0 THEN RNaN
    ELSE Root(1, x.n, x.d)

IsZeroR(v) == v.k = "fin" /\ v.n = 0

RMul(v, f) ==
    IF v.k = "nan" \/ f.k = "nan" THEN RNaN
    ELSE IF v.k = "inf" \/ f.k = "inf"
         THEN IF IsZeroR(v) \/ IsZeroR(f) THEN RNaN ELSE RInf(v.s * f.s)
         ELSE Root(v.s * f.s, v.n * f.n, v.d * f.d)

RDiv(v, m) ==
    IF v.k = "nan" \/ m.k = "nan" THEN RNaN
    ELSE IF m.k = "inf" THEN (IF v.k = "inf" THEN RNaN ELSE Root(1, 0, 1))
    ELSE IF v.k = "inf" THEN RInf(v.s * m.s)
    ELSE IF m.n = 0 THEN (IF v.n = 0 THEN RNaN ELSE RInf(v.s))
    ELSE Root(v.s * m.s, v.n * m.d, v.d * m.n)

\* abs(v) ** 2 as an extended rational
AbsSq(v) ==
    IF v.k = "nan" THEN NaN
    ELSE IF v.k = "inf" THEN Inf(1)
    ELSE Fin(v.n, v.d)

\* ------------------------------------------------------ physical constants
\* scipy.constants, in model units: c in 1e8 m/s, epsilon_0 in 1e-12 F/m
c == 3
epsilon_0 == 9
\* np.pi, as a rational
Pi == Fin(22, 7)

\* ------------------------------------------------------------ array helpers
RECURSIVE SeqSum(_, _)
SeqSum(s, i) == IF i > Len(s) THEN Num(0) ELSE ExtAdd(s[i], SeqSum(s, i + 1))

\* ndarray.sum(): 0.0 for an empty array, otherwise the sum of the cells
ArraySum(s) == SeqSum(s, 1)

RECURSIVE SeqMax(_, _)
SeqMax(s, i) == IF i = Len(s) THEN s[i] ELSE ExtMax(s[i], SeqMax(s, i + 1))

\* ndarray.max() of a non-empty array
ArrayMax(s) == SeqMax(s, 1)

NCells(sh) == sh[1] * sh[2] * sh[3]

\* index along axis 1 of the flat (C order) index i in an array of shape sh
Axis1Index(sh, i) == (((i - 1) \div sh[3]) % sh[2]) + 1

\* ------------------------------------------------------------- laser_utils
\* a slip: the temporal spacing used as a length, without the factor c
box_dz_without_c(b) == b.dx[Len(b.dx)]

box_dz(b) == ExtMul(b.dx[Len(b.dx)], Num(c))

compute_laser_energy(dm, b, sh, field) ==
    LET dz == box_dz(b)
        half == ExtMul(Num(epsilon_0), Fin(1, 2))
    IN  IF dm = "xyt"
        THEN LET dV == ExtMul(ExtMul(b.dx[1], b.dx[2]), dz)
                 w == ExtMul(dV, half)
             IN  ArraySum([i \in 1..Len(field) |-> ExtMul(w, AbsSq(field[i]))])
        ELSE LET dr == b.dx[1]
                 hdr == ExtMul(Fin(1, 2), dr)
                 dV == [j \in 1..Len(b.axes) |->
                          LET hi == ExtAdd(b.axes[j], hdr)
                              lo == ExtSub(b.axes[j], hdr)
                          IN  ExtMul(ExtMul(Pi, ExtSub(ExtMul(hi, hi), ExtMul(lo, lo))), dz)]
             IN  ArraySum([i \in 1..Len(field) |->
                     ExtMul(ExtMul(dV[Axis1Index(sh, i)], half), AbsSq(field[i]))])

\* a slip: the ratio of the energies used as the factor, without the square root
normalize_energy_no_sqrt(dm, energy, b, sh, field) ==
    IF energy = None THEN [rebind |-> FALSE, field |-> field]
    ELSE LET current_energy == compute_laser_energy(dm, b, sh, field)
             norm_factor == RootOf(ExtDiv(energy, current_energy))
         IN  [rebind |-> FALSE,
              field |-> [i \in 1..Len(field) |-> RMul(field[i], norm_factor)]]

\* a slip: no early return for None, which is then taken for 0
normalize_peak_intensity_no_none(peak_intensity, field) ==
    LET intensity == [i \in 1..Len(field) |->
            ExtMul(Fin(epsilon_0 * c, 2), AbsSq(field[i]))]
        input_peak_intensity == ArrayMax(intensity)
        f == Sqrt(ExtDiv(Num(peak_intensity.n), input_peak_intensity))
    IN  [rebind |-> FALSE,
         field |-> [i \in 1..Len(field) |-> RMul(field[i], f)]]

\* The normalisations return the array grid.field refers to afterwards, and
\* whether that is a new array object (rebind) or the caller's array, updated.
normalize_energy(dm, energy, b, sh, field) ==
    IF energy = None THEN [rebind |-> FALSE, field |-> field]
    ELSE LET current_energy == compute_laser_energy(dm, b, sh, field)
             norm_factor == Pow05(ExtDiv(energy, current_energy))
         IN  [rebind |-> FALSE,
              field |-> [i \in 1..Len(field) |-> RMul(field[i], norm_factor)]]

normalize_peak_field_amplitude(amplitude, field) ==
    IF amplitude = None THEN [rebind |-> FALSE, field |-> field]
    ELSE LET m == Sqrt(ArrayMax([i \in 1..Len(field) |-> AbsSq(field[i])]))
         IN  [rebind |-> TRUE,
              field |-> [i \in 1..Len(field) |->
                            RMul(RDiv(field[i], m), RootOf(amplitude))]]

normalize_peak_intensity(peak_intensity, field) ==
    IF peak_intensity = None THEN [rebind |-> FALSE, field |-> field]
    ELSE LET intensity == [i \in 1..Len(field) |->
                 ExtMul(Fin(epsilon_0 * c, 2), AbsSq(field[i]))]
             input_peak_intensity == ArrayMax(intensity)
             f == Sqrt(ExtDiv(peak_intensity, input_peak_intensity))
         IN  [rebind |-> FALSE,
              field |-> [i \in 1..Len(field) |-> RMul(field[i], f)]]

\* ------------------------------------------------------------ grid inputs
Zero == Root(1, 0, 1)
CellVals == {Zero, Root(1, 1, 1), Root(-1, 4, 1)}

Targets == {None, Num(-1), Num(0), Num(2)}

\* lasy.utils.Box: per-axis spacing dx and, for "rt", the radial axis (axes[0])
BoxXYT == [dx |-> <<Fin(1, 2), Num(2), Num(1)>>, axes |-> <<>>]
BoxRT(r) == [dx |-> <<Num(2), Num(1)>>, axes |-> r]
RAxes == {<<Num(0), Num(2)>>, <<Num(1), Num(3)>>}

UniformField(sh, v) == [i \in 1..NCells(sh) |-> v]
AllFields(sh) == [1..NCells(sh) -> CellVals]

NoCall == [op |-> "none", target |-> None, exc |-> "none", pre |-> <<>>,
           preid |-> 1, prebox |-> BoxXYT, result |-> None]

NoObj == [cls |-> "NoneType", lambda0 |-> 0, omega0 |-> None, pol |-> <<>>,
          env |-> 0, parts |-> <<>>, factor |-> [type |-> "NoneType", val |-> 0]]
NoConstruct == [op |-> "none", exc |-> "none", args |-> <<>>, pol |-> <<>>,
                factor |-> [type |-> "NoneType", val |-> 0], res |-> NoObj]

InitGrid ==
    /\ \/ /\ dim = "xyt"
          /\ box = BoxXYT
          /\ \/ /\ shape \in {<<1, 1, 1>>, <<2, 1, 1>>}
                /\ \E f \in AllFields(shape) : heap = [id \in {1} |-> f]
             \/ /\ \E n \in 1..MaxN : shape = <<n, n, n>>
                /\ \E v \in CellVals : heap = [id \in {1} |-> UniformField(shape, v)]
       \/ /\ dim = "rt"
          /\ \E r \in RAxes : box = BoxRT(r)
          /\ shape = <<1, 2, 1>>
          /\ \E f \in AllFields(shape) : heap = [id \in {1} |-> f]
    /\ grid_field = 1
    /\ nalloc = 1
    /\ calls = 0
    /\ last = NoCall
    /\ pool = {}
    /\ plast = NoConstruct

\* The array object the caller created and handed to the grid.
CallerRef == 1

Field == heap[grid_field]

\* the new binding of grid.field after a normalisation returned r
Store(opname, target, r) ==
    /\ calls < MaxCalls
    /\ calls' = calls + 1
    /\ last' = [op |-> opname, target |-> target, exc |-> "none", pre |-> Field,
                preid |-> grid_field, prebox |-> box, result |-> None]
    /\ IF r.rebind
       THEN /\ nalloc' = nalloc + 1
            /\ grid_field' = nalloc + 1
            /\ heap' = [id \in {CallerRef, nalloc + 1} |->
                           IF id = CallerRef THEN heap[CallerRef] ELSE r.field]
       ELSE /\ heap' = [heap EXCEPT ![grid_field] = r.field]
            /\ UNCHANGED <<grid_field, nalloc>>
    /\ UNCHANGED <<dim, box, shape, pool, plast>>

NormalizeEnergy ==
    \E e \in Targets :
        Store("normalize_energy", e, normalize_energy(dim, e, box, shape, Field))

NormalizePeakField ==
    \E a \in Targets :
        Store("normalize_peak_field_amplitude", a,
              normalize_peak_field_amplitude(a, Field))

NormalizePeakIntensity ==
    \E p \in Targets :
        Store("normalize_peak_intensity", p, normalize_peak_intensity(p, Field))

ComputeEnergy ==
    /\ calls < MaxCalls
    /\ calls' = calls + 1
    /\ last' = [op |-> "compute_laser_energy", target |-> None, exc |-> "none",
                pre |-> Field, preid |-> grid_field, prebox |-> box,
                result |-> compute_laser_energy(dim, box, shape, Field)]
    /\ UNCHANGED <<dim, box, shape, heap, grid_field, nalloc, pool, plast>>

NextGrid ==
    \/ NormalizeEnergy
    \/ NormalizePeakField
    \/ NormalizePeakIntensity
    \/ ComputeEnergy

SpecGrid == InitGrid /\ [][NextGrid]_vars

\* ------------------------------------------------------ claims on the grid
IsNormalization(op) ==
    op \in {"normalize_energy", "normalize_peak_field_amplitude",
            "normalize_peak_intensity"}

AllZero(f) == \A i \in 1..Len(f) : IsZeroR(f[i])

AllFinite(f) == \A i \in 1..Len(f) : f[i].k = "fin"

\* np.abs(field).max()
MaxAbs(f) == Sqrt(ArrayMax([i \in 1..Len(f) |-> AbsSq(f[i])]))

\* C3: a normalisation with a non-null target on an identically zero field
\* fails with a division-by-zero error instead of returning normally.
C3_ZeroFieldRaises ==
    (IsNormalization(last.op) /\ last.target # None /\ AllZero(last.pre))
        => last.exc = "ZeroDivisionError"

\* C5: a normalisation called with None leaves grid.field unchanged (same
\* array object, same values), whatever the field, and raises nothing.
C5_NoneTargetIsNoOp ==
    (IsNormalization(last.op) /\ last.target = None)
        => /\ last.exc = "none"
           /\ grid_field = last.preid
           /\ Field = last.pre

C5_Witness ==
    /\ IsNormalization(last.op)
    /\ last.target = None
    /\ calls = 2
    /\ AllZero(last.pre)

\* C6: after any sequence of normalisations grid.field is still the array
\* object the caller supplied (the field is mutated in place).
C6_FieldStaysCallerArray == grid_field = CallerRef

\* C7 (as stated): for any target E and any field that is not identically
\* zero, NormalizeEnergy then ComputeEnergy returns E.
C7_EnergyReachedForAnyTarget ==
    (last.op = "normalize_energy" /\ last.target # None /\ ~AllZero(last.pre))
        => compute_laser_energy(dim, box, shape, Field) = last.target

PreEnergy == compute_laser_energy(dim, last.prebox, shape, last.pre)

\* C7 (amended): for a target E >= 0 and a grid whose current energy is
\* finite and positive, NormalizeEnergy then ComputeEnergy returns E, and
\* every cell was multiplied by the single factor sqrt(E / currentEnergy).
C7_EnergyReached ==
    (/\ last.op = "normalize_energy"
     /\ last.target # None
     /\ last.target.n >= 0
     /\ PreEnergy.k = "fin"
     /\ PreEnergy.n > 0)
        => /\ compute_laser_energy(dim, box, shape, Field) = last.target
           /\ \A i \in 1..Len(Field) :
                 Field[i] = RMul(last.pre[i],
                                 Root(1, last.target.n * PreEnergy.d,
                                      last.target.d * PreEnergy.n))

C7_Witness ==
    /\ last.op = "normalize_energy"
    /\ last.target = Num(2)
    /\ dim = "rt"
    /\ PreEnergy.k = "fin"
    /\ PreEnergy.n > 0
    /\ PreEnergy # Num(2)
    /\ last.pre[1] # last.pre[2]

\* C8: after NormalizePeakField(A, grid), for any A and any grid, the maximum
\* of |grid.field| equals A.
C8_PeakFieldReached ==
    (last.op = "normalize_peak_field_amplitude" /\ last.target # None)
        => MaxAbs(Field) = RootOf(last.target)

\* the sum of |E|^2 over the cells
RECURSIVE SumAbsSq(_, _)
SumAbsSq(f, i) == IF i > Len(f) THEN Num(0) ELSE ExtAdd(AbsSq(f[i]), SumAbsSq(f, i + 1))

CellEnergy(b) ==
    ExtMul(ExtMul(ExtMul(b.dx[1], b.dx[2]), ExtMul(b.dx[3], Num(c))),
           Fin(epsilon_0, 2))

\* C9: ComputeEnergy("xyt") returns dx*dy*(dt*c)*(eps0/2) times the sum of
\* |E|^2 over the cells: N*dx*dy*dt*c*(eps0/2)*|E|^2 for a field of uniform
\* magnitude on N cells, 0 for a zero field; it changes neither field nor box.
C9_EnergyXYT ==
    (last.op = "compute_laser_energy" /\ dim = "xyt")
        => /\ AllFinite(last.pre)
                => last.result = ExtMul(CellEnergy(last.prebox), SumAbsSq(last.pre, 1))
           /\ \A v \in CellVals :
                 (\A i \in 1..Len(last.pre) : AbsSq(last.pre[i]) = AbsSq(v))
                     => last.result = ExtMul(Num(NCells(shape)),
                                             ExtMul(CellEnergy(last.prebox), AbsSq(v)))
           /\ AllZero(last.pre) => last.result = Num(0)
           /\ Field = last.pre
           /\ grid_field = last.preid
           /\ box = last.prebox

C9_Witness ==
    /\ last.op = "compute_laser_energy"
    /\ dim = "xyt"
    /\ shape = <<2, 2, 2>>
    /\ \A i \in 1..Len(last.pre) : last.pre[i] = Root(-1, 4, 1)
    /\ last.result = Num(432)

\* ---------------------------------------------------------------- profiles
\* Wavelengths in units of 1e-13 m: 800 nm, 810.0081 nm, 818 nm.
Wavelengths == {8000000, 8100081, 8180000}

\* Arguments of Profile.__init__: the class constructed, wavelength, pol (of
\* python ints, as in the tests' pol = (1, 0)) and the value its evaluate
\* returns at the sample point (0 for the base class).
LeafInputs ==
    {[cls |-> "AnalyticProfile", w |-> w, pol |-> <<Num(1), Num(0)>>, env |-> 1] :
         w \in Wavelengths}
    \cup {[cls |-> "Profile", w |-> 8000000, pol |-> <<Num(1), Num(-1)>>, env |-> 0],
          [cls |-> "AnalyticProfile", w |-> 8000000, pol |-> <<Num(0), Num(0)>>, env |-> 2],
          [cls |-> "Profile", w |-> 8100081, pol |-> <<Num(1), Num(0), Num(0)>>, env |-> 0]}

\* A python value that is no Profile (the int 3, say).
NotAProfile == [NoObj EXCEPT !.cls = "int"]

\* Profile, a subclass defining its own evaluate, and the two combinators.
ProfileClasses == {"Profile", "AnalyticProfile", "SummedProfile", "ScaledProfile"}

\* isinstance(p, Profile)
IsProfile(p) == p.cls \in ProfileClasses

Factors == {[type |-> "int", val |-> 2], [type |-> "float", val |-> -1],
            [type |-> "bool", val |-> 1], [type |-> "complex", val |-> 1]}

\* isinstance(factor, (int, float)): bool is a subclass of int
IsIntOrFloat(f) == f.type \in {"int", "float", "bool"}

\* omega0 = 2 * np.pi * c / lambda0
Omega0(lambda0) == ExtDiv(ExtMul(Num(2 * c), Pi), Num(lambda0))

Raised(e) == [exc |-> e, obj |-> NoObj]
Built(o) == [exc |-> "none", obj |-> o]

\* Profile.__init__ (cls: the class being constructed, env: the value its
\* evaluate returns at the sample point, 0 for the base class)
Profile_init(cls, wavelength, pol, env) ==
    IF Len(pol) # 2 THEN Raised("AssertionError")
    ELSE LET norm_pol == Sqrt(ExtAdd(AbsSq(RootOf(pol[1])), AbsSq(RootOf(pol[2]))))
         IN  Built([cls |-> cls,
                    lambda0 |-> wavelength,
                    omega0 |-> Omega0(wavelength),
                    pol |-> <<RDiv(RootOf(pol[1]), norm_pol),
                              RDiv(RootOf(pol[2]), norm_pol)>>,
                    env |-> env,
                    parts |-> <<>>,
                    factor |-> NoObj.factor])

\* numpy's default tolerances: atol = 1e-8 (m, here in the wavelength unit) and
\* rtol = 1e-5 = 1 / RTolInv
ATol == 100000
RTolInv == 100000

\* np.allclose(a, b) on wavelengths: |a - b| <= atol + rtol * |b|
\* (the wavelengths are whole numbers of the unit, so rtol * |b| rounds down)
AllCloseWavelength(a, b) == Abs(a - b) <= ATol + (Abs(b) \div RTolInv)

\* np.allclose(a, b) on polarisation components: never close when one is nan;
\* the components that the inputs produce are equal or differ by far more than
\* the tolerance
AllClosePol(a, b) ==
    \A i \in 1..2 : a[i].k = "fin" /\ b[i].k = "fin" /\ a[i] = b[i]

\* SummedProfile.__init__(*profiles)
SummedProfile_init(profiles) ==
    IF \E i \in 1..Len(profiles) : ~IsProfile(profiles[i])
    THEN Raised("AssertionError")
    ELSE IF Len(profiles) = 0 THEN Raised("IndexError")
    ELSE IF \E i \in 1..Len(profiles) :
                ~AllCloseWavelength(profiles[i].lambda0, profiles[1].lambda0)
    THEN Raised("AssertionError")
    ELSE IF \E i \in 1..Len(profiles) : ~AllClosePol(profiles[i].pol, profiles[1].pol)
    THEN Raised("AssertionError")
    ELSE Built([cls |-> "SummedProfile",
                lambda0 |-> profiles[1].lambda0,
                omega0 |-> Omega0(profiles[1].lambda0),
                pol |-> profiles[1].pol,
                env |-> 0,
                parts |-> profiles,
                factor |-> NoObj.factor])

\* a slip: the check of the factor's type left out
ScaledProfile_init_any_factor(profile, factor) ==
    IF ~IsProfile(profile) THEN Raised("AssertionError")
    ELSE Built([cls |-> "ScaledProfile",
                lambda0 |-> profile.lambda0,
                omega0 |-> profile.omega0,
                pol |-> profile.pol,
                env |-> 0,
                parts |-> <<profile>>,
                factor |-> factor])

\* ScaledProfile.__init__(profile, factor)
ScaledProfile_init(profile, factor) ==
    IF ~IsIntOrFloat(factor) THEN Raised("AssertionError")
    ELSE IF ~IsProfile(profile) THEN Raised("AssertionError")
    ELSE Built([cls |-> "ScaledProfile",
                lambda0 |-> profile.lambda0,
                omega0 |-> profile.omega0,
                pol |-> profile.pol,
                env |-> 0,
                parts |-> <<profile>>,
                factor |-> factor])

\* evaluate(x, y, t) at one sample point
RECURSIVE evaluate(_)
RECURSIVE SumParts(_, _)
SumParts(ps, i) == IF i > Len(ps) THEN 0 ELSE evaluate(ps[i]) + SumParts(ps, i + 1)

evaluate(p) ==
    CASE p.cls = "Profile" -> 0
      [] p.cls = "AnalyticProfile" -> p.env
      [] p.cls = "SummedProfile" -> SumParts(p.parts, 1)
      [] p.cls = "ScaledProfile" -> evaluate(p.parts[1]) * p.factor.val

\* ------------------------------------------------------- profile operations
InitProfile ==
    /\ dim = "xyt"
    /\ box = BoxXYT
    /\ shape = <<1, 1, 1>>
    /\ heap = [id \in {1} |-> UniformField(shape, Zero)]
    /\ grid_field = 1
    /\ nalloc = 1
    /\ calls = 0
    /\ last = NoCall
    /\ pool = {}
    /\ plast = NoConstruct

\* the outcome r of a constructor call; pool is the objects the caller holds on
\* to for later calls (it keeps a new object while it holds fewer than MaxObjs)
Construct(opname, args, pol, factor, r) ==
    /\ pool' = IF r.exc = "none" /\ Cardinality(pool \cup {r.obj}) <= MaxObjs
               THEN pool \cup {r.obj}
               ELSE pool
    /\ plast' = [op |-> opname, exc |-> r.exc, args |-> args, pol |-> pol,
                 factor |-> factor, res |-> r.obj]
    /\ UNCHANGED gridvars

Operands == pool \cup {NotAProfile}

NewProfile ==
    \E i \in LeafInputs :
        Construct("Profile", <<>>, i.pol, NoObj.factor,
                  Profile_init(i.cls, i.w, i.pol, i.env))

\* Profile.__add__: self + other
Add ==
    \E a \in pool, b \in Operands :
        Construct("__add__", <<a, b>>, <<>>, NoObj.factor, SummedProfile_init(<<a, b>>))

\* SummedProfile(*profiles) with no, one or three operands
NewSummed ==
    \E n \in {0, 1, 3} : \E ps \in [1..n -> (IF n = 3 THEN pool ELSE Operands)] :
        Construct("SummedProfile", ps, <<>>, NoObj.factor, SummedProfile_init(ps))

\* Profile.__mul__: self * factor
Mul ==
    \E a \in pool, f \in Factors :
        Construct("__mul__", <<a>>, <<>>, f, ScaledProfile_init(a, f))

\* Profile.__rmul__: factor * self
RMulProfile ==
    \E a \in pool, f \in Factors :
        Construct("__rmul__", <<a>>, <<>>, f, ScaledProfile_init(a, f))

\* ScaledProfile(profile, factor)
NewScaled ==
    \E a \in Operands, f \in Factors :
        Construct("ScaledProfile", <<a>>, <<>>, f, ScaledProfile_init(a, f))

NextProfile ==
    \/ NewProfile
    \/ Add
    \/ NewSummed
    \/ Mul
    \/ RMulProfile
    \/ NewScaled

SpecProfile == InitProfile /\ [][NextProfile]_vars

\* -------------------------------------------------- claims on the profiles
\* equal within floating tolerance: a relative difference of at most 1e-5
FloatEqual(a, b) ==
    Abs(a - b) <= (IF Abs(a) > Abs(b) THEN Abs(a) ELSE Abs(b)) \div RTolInv

IsSumCall == plast.op \in {"__add__", "SummedProfile"}

\* C1: constructing a SummedProfile (directly or by +) from profiles two of
\* which have wavelengths that differ beyond floating tolerance raises, and
\* no composite is produced.
C1_DifferentWavelengthsRaise ==
    (/\ IsSumCall
     /\ \A i \in 1..Len(plast.args) : IsProfile(plast.args[i])
     /\ \E i, j \in 1..Len(plast.args) :
           ~FloatEqual(plast.args[i].lambda0, plast.args[j].lambda0))
        => /\ plast.exc = "AssertionError"
           /\ plast.res = NoObj

\* C2: Profile construction raises whenever pol has not exactly 2 elements or
\* has zero norm; no Profile object is produced then.
C2_BadPolarizationRaises ==
    (/\ plast.op = "Profile"
     /\ \/ Len(plast.pol) # 2
        \/ \A i \in 1..Len(plast.pol) : plast.pol[i] = Num(0))
        => /\ plast.exc = "AssertionError"
           /\ plast.res = NoObj

IsScaleCall == plast.op \in {"__mul__", "__rmul__", "ScaledProfile"}

\* a real number: python's int (bool included, as its subclass) or float
RealFactor(f) == f.type \notin {"complex", "str", "NoneType"}

\* C4: constructing a ScaledProfile (directly, or by profile * factor or
\* factor * profile) raises unless the factor is a real number and the operand
\* a Profile; when it succeeds the result has the wrapped profile's wavelength,
\* angular frequency and polarisation, and the wrapped profile is unchanged.
C4_ScaledProfileConstruction ==
    IsScaleCall
        => /\ (~RealFactor(plast.factor) \/ ~IsProfile(plast.args[1]))
                 => (plast.exc = "AssertionError" /\ plast.res = NoObj)
           /\ plast.exc = "none"
                 => /\ plast.res.cls = "ScaledProfile"
                    /\ plast.res.parts = plast.args
                    /\ plast.res.factor = plast.factor
                    /\ plast.res.lambda0 = plast.args[1].lambda0
                    /\ plast.res.omega0 = plast.args[1].omega0
                    /\ plast.res.pol = plast.args[1].pol
                    /\ plast.args[1] \in pool

C4_Witness ==
    /\ plast.op = "__rmul__"
    /\ plast.exc = "none"
    /\ plast.factor.type = "float"
    /\ plast.args[1].cls = "SummedProfile"
    /\ plast.res.lambda0 = 8000000
    /\ evaluate(plast.res) = -2

Sum2(a, b) == SummedProfile_init(<<a, b>>)

\* C10: + is commutative and associative in value: A+B and B+A, and (A+B)+C
\* and A+(B+C), evaluate to the sum of the operands' values, and one order or
\* grouping can be constructed exactly when the other can.
C10_AddCommutativeAssociative ==
    \A a, b, cc \in pool :
        LET ab == Sum2(a, b)
            ba == Sum2(b, a)
            bc == Sum2(b, cc)
            ab_c == IF ab.exc = "none" THEN Sum2(ab.obj, cc) ELSE ab
            a_bc == IF bc.exc = "none" THEN Sum2(a, bc.obj) ELSE bc
        IN  /\ (ab.exc = "none") <=> (ba.exc = "none")
            /\ ab.exc = "none"
                  => /\ evaluate(ab.obj) = evaluate(a) + evaluate(b)
                     /\ evaluate(ba.obj) = evaluate(ab.obj)
            /\ (ab_c.exc = "none") <=> (a_bc.exc = "none")
            /\ (ab_c.exc = "none" /\ a_bc.exc = "none")
                  => /\ evaluate(ab_c.obj) = evaluate(a) + evaluate(b) + evaluate(cc)
                     /\ evaluate(a_bc.obj) = evaluate(ab_c.obj)

====
